---- MODULE Spec2Model ----
(***************************************************************************)
(* A model of the binary decoding substrate of pyelftools:                 *)
(*   elftools/common/utils.py    struct_parse, parse_cstring_from_stream,  *)
(*                               preserve_stream_pos, roundup, lazy        *)
(*   elftools/dwarf/abbrevtable.py   AbbrevTable, AbbrevDecl               *)
(* The construct engine and the DWARF record layouts (Dwarf_uleb128,       *)
(* Dwarf_abbrev_declaration) live outside these files; they are modelled   *)
(* from the wire format of the abbreviation table.                         *)
(***************************************************************************)
EXTENDS Integers, Sequences, FiniteSets, TLC

VARIABLES
    \* ---- AbbrevTable over a byte stream
    stream_data,    \* the bytes of the stream (never written)
    stream_tell,    \* the stream's position: what stream.tell() returns
    tbl,            \* the entries the stream was encoded from (input, never read by the code)
    offset,         \* AbbrevTable.offset
    abbrev_map,     \* AbbrevTable._abbrev_map : code -> AbbrevDecl
    gen_state,      \* AbbrevTable._parser_state : "created" | "suspended" | "finished"
    gen_offset,     \* the local `offset` of _abbrev_table_parser (the decode cursor)
    op,             \* the last operation run on the table's stream
    req,            \* the code of the last get_abbrev call
    ret,            \* what the last get_abbrev call returned or raised
    accesses,       \* stream.read / seek / tell calls made by the last get_abbrev call
    \* ---- preserve_stream_pos
    g_pc,           \* "before" | "inside" | "left" | "raised"
    g_pos,          \* the guarded stream's position
    g_saved,        \* saved_pos of the context manager
    g_entry,        \* the position the stream had when the with-block was entered
    \* ---- struct_parse
    sp_struct,      \* the layout handed to struct_parse
    sp_data,        \* the bytes of the stream
    sp_pos,         \* the stream's position
    sp_pos0,        \* the position the stream had when struct_parse was called
    sp_arg,         \* the stream_pos argument, or None
    sp_ret,         \* what struct_parse returned or raised
    sp_done,
    \* ---- parse_cstring_from_stream
    cs_data,        \* the bytes of the stream
    cs_pos,         \* the stream's position
    cs_arg,         \* the stream_pos argument, or None
    cs_ret,         \* what parse_cstring_from_stream returned
    cs_done,
    \* ---- lazy
    lz_field,       \* per instance: the state the getter computes from
    lz_dict,        \* per instance: obj.__dict__[getter.__name__], or Missing
    lz_calls,       \* per instance: how often the getter ran
    lz_last,        \* the last attribute access: instance, value, whether the getter ran
    \* ---- roundup
    ru_num, ru_bits, ru_ret, ru_done,
    \* ---- the life of one AbbrevTable (history of its calls)
    returned,       \* code -> the declaration the first successful get_abbrev(code) returned
    decode_log,     \* every offset the parser has seeked to, in order
    \* ---- two AbbrevTables on one stream
    sh_data,        \* the bytes of the shared stream
    sh_tell,        \* the shared stream's position
    sh_tab,         \* per table: offset, _abbrev_map, and the parser's state and local offset
    sh_solo,        \* per table: the same table run on a stream that nobody else uses
    sh_call,        \* the last call: table, code, where the stream stood, its outcome
                    \* and the outcome of the solo run
    \* ---- iter_attr_specs on one AbbrevDecl
    it_entry,       \* the entry the declaration was decoded from (input)
    it_decl,        \* the AbbrevDecl
    it_iters,       \* the generators iter_attr_specs has returned: index into
                    \* self['attr_spec'], pairs yielded so far, whether it has ended
    it_cursor       \* an iteration state kept on the declaration (the code keeps none)

tvars == <<stream_data, stream_tell, tbl, offset, abbrev_map, gen_state, gen_offset,
           op, req, ret, accesses>>
gvars == <<g_pc, g_pos, g_saved, g_entry>>
svars == <<sp_struct, sp_data, sp_pos, sp_pos0, sp_arg, sp_ret, sp_done>>
cvars == <<cs_data, cs_pos, cs_arg, cs_ret, cs_done>>
lvars == <<lz_field, lz_dict, lz_calls, lz_last>>
rvars == <<ru_num, ru_bits, ru_ret, ru_done>>
hvars == <<returned, decode_log>>
xvars == <<sh_data, sh_tell, sh_tab, sh_solo, sh_call>>
ivars == <<it_entry, it_decl, it_iters, it_cursor>>
evars == <<hvars, xvars, ivars>>
vars  == <<tvars, gvars, svars, cvars, lvars, rvars, evars>>

-----------------------------------------------------------------------------
(* Bounds of the model *)

MaxEntries == 3     \* entries of a table before its terminator
MaxCut == 3         \* bytes a stream may lack at its end (truncation)
MaxGuardPos == 7    \* size of the stream a guarded block moves in
MaxChunks == 2      \* whole chunks a C-string stream may hold
MaxNum == 40        \* largest num given to roundup
MaxBits == 4        \* largest bits given to roundup
NumObjs == 2        \* instances owning a lazy attribute
MaxField == 2       \* values of the field a lazy getter computes from
MaxCalls == 3       \* getter calls per instance the model follows

-----------------------------------------------------------------------------
(* Values *)

None == -1                  \* Python's None for an optional position
DW_CHILDREN_yes == 1        \* the "children yes" constant of the children byte

Min(a, b) == IF a < b THEN a ELSE b

NoDecl == [code |-> 0, decl |-> [tag |-> 0, children_flag |-> 0, attr_spec |-> <<>>]]

-----------------------------------------------------------------------------
(* The wire format: table := entry* 0x00 ;                                  *)
(* entry := code:uleb128 tag:uleb128 children:u8 (name:uleb128 form:uleb128)* 0 0 *)

RECURSIVE encode_uleb128(_)
encode_uleb128(n) ==
    IF n < 128 THEN <<n>> ELSE <<128 + (n % 128)>> \o encode_uleb128(n \div 128)

RECURSIVE EncodeSpecs(_)
EncodeSpecs(specs) ==
    IF specs = <<>> THEN <<0, 0>>
    ELSE encode_uleb128(Head(specs).name) \o encode_uleb128(Head(specs).form)
         \o EncodeSpecs(Tail(specs))

EncodeEntry(e) ==
    encode_uleb128(e.code) \o encode_uleb128(e.tag) \o <<e.children_flag>>
    \o EncodeSpecs(e.attr_spec)

RECURSIVE EncodeEntries(_)
EncodeEntries(t) ==
    IF t = <<>> THEN <<>> ELSE EncodeEntry(Head(t)) \o EncodeEntries(Tail(t))

EncodeTable(t) == EncodeEntries(t) \o <<0>>

-----------------------------------------------------------------------------
(* The record-layout engine: struct.parse_stream(stream).  A result is      *)
(* [kind, val, pos, reads, msg]: kind "ok" with the value and the position  *)
(* after the bytes consumed, or kind "ConstructError" with its message.     *)
(* Each step hands its result to the next as an argument.                   *)

EngineOk(val, pos, reads) ==
    [kind |-> "ok", val |-> val, pos |-> pos, reads |-> reads, msg |-> ""]

EngineError(val, pos, reads, msg) ==
    [kind |-> "ConstructError", val |-> val, pos |-> pos, reads |-> reads, msg |-> msg]

\* Dwarf_uleb128: bytes of 7 value bits, low bits first, until a byte < 0x80
RECURSIVE parse_uleb128(_, _)
parse_uleb128(data, pos) ==
    IF pos >= Len(data)
    THEN EngineError(0, pos, 1, "missing terminator")
    ELSE IF data[pos + 1] < 128
    THEN EngineOk(data[pos + 1], pos + 1, 1)
    ELSE [parse_uleb128(data, pos + 1) EXCEPT
             !.val = (data[pos + 1] % 128) + 128 * @, !.reads = @ + 1]

\* Dwarf_uint8
parse_uint8(data, pos) ==
    IF pos >= Len(data)
    THEN EngineError(0, pos, 1, "expected 1, found 0")
    ELSE EngineOk(data[pos + 1], pos + 1, 1)

\* attr_spec := name:uleb128 form:uleb128, repeated until (0, 0), which is dropped
RECURSIVE parse_attr_spec_list(_, _)
attr_spec_cons(n, f, r) ==
    [r EXCEPT !.val = IF r.kind = "ok"
                      THEN <<[name |-> n.val, form |-> f.val]>> \o @ ELSE <<>>,
              !.reads = n.reads + f.reads + @]

attr_spec_after_form(data, n, f) ==
    IF f.kind # "ok" THEN [f EXCEPT !.val = <<>>, !.reads = n.reads + @]
    ELSE IF n.val = 0 /\ f.val = 0 THEN EngineOk(<<>>, f.pos, n.reads + f.reads)
    ELSE attr_spec_cons(n, f, parse_attr_spec_list(data, f.pos))

attr_spec_after_name(data, n) ==
    IF n.kind # "ok" THEN [n EXCEPT !.val = <<>>]
    ELSE attr_spec_after_form(data, n, parse_uleb128(data, n.pos))

parse_attr_spec_list(data, pos) == attr_spec_after_name(data, parse_uleb128(data, pos))

\* Dwarf_abbrev_declaration := tag:uleb128 children_flag:u8 attr_spec*
abbrev_declaration_make(t, c, s) ==
    [s EXCEPT !.val = IF s.kind = "ok"
                      THEN [tag |-> t.val, children_flag |-> c.val, attr_spec |-> @]
                      ELSE NoDecl.decl,
              !.reads = t.reads + c.reads + @]

abbrev_declaration_after_children(data, t, c) ==
    IF c.kind # "ok" THEN [c EXCEPT !.val = NoDecl.decl, !.reads = t.reads + @]
    ELSE abbrev_declaration_make(t, c, parse_attr_spec_list(data, c.pos))

abbrev_declaration_after_tag(data, t) ==
    IF t.kind # "ok" THEN [t EXCEPT !.val = NoDecl.decl]
    ELSE abbrev_declaration_after_children(data, t, parse_uint8(data, t.pos))

parse_abbrev_declaration(data, pos) ==
    abbrev_declaration_after_tag(data, parse_uleb128(data, pos))

parse_stream(struct, data, pos) ==
    IF struct = "Dwarf_uleb128" THEN parse_uleb128(data, pos)
    ELSE parse_abbrev_declaration(data, pos)

-----------------------------------------------------------------------------
(* utils.struct_parse.  A result is the engine's, with the number of seeks. *)

\* try: ... return struct.parse_stream(stream), with no except clause
reraise_untranslated(r, stream_pos) ==
    [kind |-> r.kind, val |-> r.val, pos |-> r.pos, reads |-> r.reads,
     seeks |-> IF stream_pos # None THEN 1 ELSE 0, msg |-> r.msg]

\* except ConstructError as e: raise ELFParseError(str(e))
reraise_as_ELFParseError(r, stream_pos) ==
    [kind |-> IF r.kind = "ConstructError" THEN "ELFParseError" ELSE r.kind,
     val |-> r.val, pos |-> r.pos, reads |-> r.reads,
     seeks |-> IF stream_pos # None THEN 1 ELSE 0, msg |-> r.msg]

\* struct_parse without stream.seek(stream_pos): it decodes where the stream stands.
struct_parse_unseeked(struct, data, pos, stream_pos) ==
    reraise_as_ELFParseError(parse_stream(struct, data, pos), stream_pos)

struct_parse(struct, data, pos, stream_pos) ==
    reraise_as_ELFParseError(
        parse_stream(struct, data, IF stream_pos # None THEN stream_pos ELSE pos),
        stream_pos)

-----------------------------------------------------------------------------
(* abbrevtable.AbbrevDecl *)

AbbrevDecl(code, decl) == [code |-> code, decl |-> decl]

\* has_children that takes every non-zero flag for DW_CHILDREN_yes
has_children_nonzero(d) == d.decl.children_flag # 0

has_children(d) == d.decl.children_flag = DW_CHILDREN_yes

iter_attr_specs(d) ==
    [i \in 1..Len(d.decl.attr_spec) |->
        <<d.decl.attr_spec[i].name, d.decl.attr_spec[i].form>>]

-----------------------------------------------------------------------------
(* abbrevtable.AbbrevTable *)

\* A store that evicts: the map keeps the last declaration stored only.
MapPut_evicting(map, key, value) == [k \in {key} |-> value]

\* _map[key] = value
MapPut(map, key, value) ==
    [k \in DOMAIN map \cup {key} |-> IF k = key THEN value ELSE map[k]]

EmptyMap == [k \in {} |-> NoDecl]

\* reads, seeks and tells count the calls; sought lists the offsets seeked to
NoAccess == [reads |-> 0, seeks |-> 0, tells |-> 0, sought |-> <<>>]

\* The state a generator object carries: where its frame stands, its local
\* `offset`, the position it leaves the stream at, and the stream calls made.
Generator(state, off, pos, acc) ==
    [state |-> state, offset |-> off, pos |-> pos, acc |-> acc]

\* What one next() on the generator gives: the generator after it, and a
\* yielded declaration, StopIteration, or the exception that left the frame.
Resumed(g, out, decl, msg) == [g |-> g, out |-> out, decl |-> decl, msg |-> msg]

\* declaration = struct_parse(Dwarf_abbrev_declaration); offset = stream.tell(); yield
parser_after_declaration(g, c, d) ==
    IF d.kind # "ok"
    THEN Resumed(Generator("finished", g.offset, d.pos,
                           [g.acc EXCEPT !.seeks = @ + 1, !.sought = Append(@, g.offset),
                                         !.reads = @ + c.reads + d.reads]),
                 d.kind, NoDecl, d.msg)
    ELSE Resumed(Generator("suspended", d.pos, d.pos,
                           [g.acc EXCEPT !.seeks = @ + 1, !.sought = Append(@, g.offset),
                                         !.reads = @ + c.reads + d.reads,
                                         !.tells = @ + 1]),
                 "yield", AbbrevDecl(c.val, d.val), "")

\* A parser without `if decl_code == 0: break`: code 0 is an entry like any other.
parser_after_code_unterminated(data, g, c) ==
    IF c.kind # "ok"
    THEN Resumed(Generator("finished", g.offset, c.pos,
                           [g.acc EXCEPT !.seeks = @ + 1, !.sought = Append(@, g.offset),
                                         !.reads = @ + c.reads]),
                 c.kind, NoDecl, c.msg)
    ELSE parser_after_declaration(g, c,
             struct_parse("Dwarf_abbrev_declaration", data, c.pos, None))

\* decl_code = struct_parse(Dwarf_uleb128); if decl_code == 0: break
parser_after_code(data, g, c) ==
    IF c.kind # "ok"
    THEN Resumed(Generator("finished", g.offset, c.pos,
                           [g.acc EXCEPT !.seeks = @ + 1, !.sought = Append(@, g.offset),
                                         !.reads = @ + c.reads]),
                 c.kind, NoDecl, c.msg)
    ELSE IF c.val = 0
    THEN Resumed(Generator("finished", g.offset, c.pos,
                           [g.acc EXCEPT !.seeks = @ + 1, !.sought = Append(@, g.offset),
                                         !.reads = @ + c.reads]),
                 "StopIteration", NoDecl, "")
    ELSE parser_after_declaration(g, c,
             struct_parse("Dwarf_abbrev_declaration", data, c.pos, None))

\* A parser that is no generator: once ended, it reads at its offset again.
parser_next_rereading(data, g) ==
    parser_after_code(data, g, struct_parse("Dwarf_uleb128", data, g.offset, None))

\* A parser that seeks to the table's start offset at every resumption.
parser_next_from_start(data, g) ==
    IF g.state = "finished" THEN Resumed(g, "StopIteration", NoDecl, "")
    ELSE parser_after_code(data, [g EXCEPT !.offset = offset],
             struct_parse("Dwarf_uleb128", data, offset, None))

\* A parser without stream.seek(offset): it decodes where the stream stands.
parser_next_unseeked(data, g) ==
    IF g.state = "finished" THEN Resumed(g, "StopIteration", NoDecl, "")
    ELSE parser_after_code(data, g, struct_parse("Dwarf_uleb128", data, g.pos, None))

\* One next() on _abbrev_table_parser: the frame runs from stream.seek(offset)
\* to its next yield, to its end or to an exception; a generator that has ended
\* or raised stays finished and answers StopIteration.
parser_next(data, g) ==
    IF g.state = "finished" THEN Resumed(g, "StopIteration", NoDecl, "")
    ELSE parser_after_code(data, g, struct_parse("Dwarf_uleb128", data, g.offset, None))

\* What get_abbrev leaves: the generator, the map and its return or exception.
Scanned(g, map, kind, decl, msg) ==
    [g |-> g, map |-> map, ret |-> [kind |-> kind, decl |-> decl, msg |-> msg]]

RECURSIVE for_decl_in_parser(_, _, _, _)

\* A loop body that returns the first declaration yielded, whatever its code.
for_body_return_first(data, map, code, n) ==
    IF n.out = "yield"
    THEN Scanned(n.g, MapPut(map, n.decl.code, n.decl), "decl", n.decl, "")
    ELSE IF n.out = "StopIteration" THEN Scanned(n.g, map, "KeyError", NoDecl, "")
    ELSE Scanned(n.g, map, n.out, NoDecl, n.msg)

\* A loop body that stores only the declaration it returns.
for_body_store_match_only(data, map, code, n) ==
    IF n.out = "yield"
    THEN IF n.decl.code = code
         THEN Scanned(n.g, MapPut(map, n.decl.code, n.decl), "decl", n.decl, "")
         ELSE for_decl_in_parser(data, n.g, map, code)
    ELSE IF n.out = "StopIteration" THEN Scanned(n.g, map, "KeyError", NoDecl, "")
    ELSE Scanned(n.g, map, n.out, NoDecl, n.msg)

\* _map[decl.code] = decl; if decl.code == code: return decl;
\* after the loop: raise KeyError(code); an exception of the parser propagates
for_body(data, map, code, n) ==
    IF n.out = "yield"
    THEN IF n.decl.code = code
         THEN Scanned(n.g, MapPut(map, n.decl.code, n.decl), "decl", n.decl, "")
         ELSE for_decl_in_parser(data, n.g, MapPut(map, n.decl.code, n.decl), code)
    ELSE IF n.out = "StopIteration" THEN Scanned(n.g, map, "KeyError", NoDecl, "")
    ELSE Scanned(n.g, map, n.out, NoDecl, n.msg)

\* for decl in self._parser_state: ...
for_decl_in_parser(data, g, map, code) ==
    for_body(data, map, code, parser_next(data, g))

\* The assignments a scanning get_abbrev makes
get_abbrev_scanned(s) ==
    /\ ret' = s.ret
    /\ accesses' = s.g.acc
    /\ abbrev_map' = s.map
    /\ gen_state' = s.g.state
    /\ gen_offset' = s.g.offset
    /\ stream_tell' = s.g.pos

\* get_abbrev without the lookup in _map: every call runs the parser.
get_abbrev_uncached(code) ==
    /\ op' = "get_abbrev"
    /\ req' = code
    /\ get_abbrev_scanned(for_decl_in_parser(stream_data,
           Generator(gen_state, gen_offset, stream_tell, NoAccess), abbrev_map, code))
    /\ UNCHANGED <<stream_data, tbl, offset>>

get_abbrev(code) ==
    /\ op' = "get_abbrev"
    /\ req' = code
    /\ IF code \in DOMAIN abbrev_map
       THEN /\ ret' = [kind |-> "decl", decl |-> abbrev_map[code], msg |-> ""]
            /\ accesses' = NoAccess
            /\ UNCHANGED <<abbrev_map, gen_state, gen_offset, stream_tell>>
       ELSE get_abbrev_scanned(for_decl_in_parser(stream_data,
                Generator(gen_state, gen_offset, stream_tell, NoAccess),
                abbrev_map, code))
    /\ UNCHANGED <<stream_data, tbl, offset>>

\* Other code of the program moves the shared stream between two calls.
stream_seek(p) ==
    /\ stream_tell # p
    /\ stream_tell' = p
    /\ op' = "seek"
    /\ UNCHANGED <<stream_data, tbl, offset, abbrev_map, gen_state, gen_offset,
                   req, ret, accesses>>

-----------------------------------------------------------------------------
(* The tables and streams the model is run on *)

EntryPool ==
    { [code |-> 3, tag |-> 17, children_flag |-> 1,
       attr_spec |-> <<[name |-> 3, form |-> 8]>>],
      [code |-> 1, tag |-> 52, children_flag |-> 0, attr_spec |-> <<>>],
      [code |-> 300, tag |-> 200, children_flag |-> 1, attr_spec |-> <<>>],
      [code |-> 3, tag |-> 36, children_flag |-> 2,
       attr_spec |-> <<[name |-> 11, form |-> 11], [name |-> 3, form |-> 8]>>] }

Tables == UNION { [1..n -> EntryPool] : n \in 0..MaxEntries }

Offsets == {0, 2}               \* where in the stream a table starts
ReqCodes == {0, 1, 3, 300}      \* the codes asked for (0 is in no table)
SeekTargets == {0}              \* where other code leaves the stream

\* The stream holding table t at offset o, its last `cut` bytes missing.
StreamOf(t, o, cut) ==
    LET enc == EncodeTable(t)
        keep == IF cut >= Len(enc) THEN 0 ELSE Len(enc) - cut
    IN  [i \in 1..o |-> 0] \o SubSeq(enc, 1, keep)

-----------------------------------------------------------------------------
(* States of the parts a specification does not run *)

NoRet == [kind |-> "none", decl |-> NoDecl, msg |-> ""]

IdleTable ==
    /\ stream_data = <<>> /\ stream_tell = 0 /\ tbl = <<>> /\ offset = 0
    /\ abbrev_map = EmptyMap /\ gen_state = "created" /\ gen_offset = 0
    /\ op = "init" /\ req = None /\ ret = NoRet /\ accesses = NoAccess

IdleGuard == g_pc = "before" /\ g_pos = 0 /\ g_saved = None /\ g_entry = 0

IdleParse ==
    /\ sp_struct = "Dwarf_uleb128" /\ sp_data = <<>> /\ sp_pos = 0 /\ sp_pos0 = 0
    /\ sp_arg = None /\ sp_ret = [kind |-> "none", msg |-> ""] /\ sp_done = FALSE

IdleCString ==
    /\ cs_data = <<>> /\ cs_pos = 0 /\ cs_arg = None
    /\ cs_ret = [none |-> TRUE, bytes |-> <<>>] /\ cs_done = FALSE

IdleLazy ==
    /\ lz_field = <<>> /\ lz_dict = <<>> /\ lz_calls = <<>>
    /\ lz_last = [obj |-> 0, val |-> None, ran |-> FALSE]

IdleRoundup == ru_num = 0 /\ ru_bits = 0 /\ ru_ret = 0 /\ ru_done = FALSE

IdleHistory == returned = EmptyMap /\ decode_log = <<>>

IdleShared ==
    /\ sh_data = <<>> /\ sh_tell = 0 /\ sh_tab = <<>> /\ sh_solo = <<>>
    /\ sh_call = [tab |-> 0, code |-> None, from |-> 0, ret |-> NoRet, solo |-> NoRet]

IdleIter == it_entry = NoDecl /\ it_decl = NoDecl /\ it_iters = <<>> /\ it_cursor = 0

IdleExtra == IdleHistory /\ IdleShared /\ IdleIter

-----------------------------------------------------------------------------
(* Specification of an AbbrevTable: AbbrevTable(structs, stream, offset) has *)
(* been constructed on a stream, and get_abbrev is called with any codes in  *)
(* any order while other code may move the stream in between.                *)

\* AbbrevTable.__init__
AbbrevTableInit(t, o, cut) ==
    /\ tbl = t
    /\ stream_data = StreamOf(t, o, cut)
    /\ stream_tell = 0
    /\ offset = o
    /\ abbrev_map = EmptyMap
    /\ gen_state = "created"
    /\ gen_offset = o
    /\ op = "init" /\ req = None /\ ret = NoRet /\ accesses = NoAccess

Init ==
    /\ \E t \in Tables, o \in Offsets, cut \in 0..MaxCut : AbbrevTableInit(t, o, cut)
    /\ IdleGuard /\ IdleParse /\ IdleCString /\ IdleLazy /\ IdleRoundup /\ IdleExtra

GetAbbrev == \E code \in ReqCodes : get_abbrev(code)
StreamSeek == \E p \in SeekTargets : stream_seek(p)

Next ==
    \/ GetAbbrev /\ UNCHANGED <<gvars, svars, cvars, lvars, rvars, evars>>
    \/ StreamSeek /\ UNCHANGED <<gvars, svars, cvars, lvars, rvars, evars>>

Spec == Init /\ [][Next]_vars

-----------------------------------------------------------------------------
(* Properties of AbbrevTable, under Spec *)

\* The offset just after entry i of the table
EntryEnd(i) == offset + Len(EncodeEntries(SubSeq(tbl, 1, i)))

\* The stream holds the whole table, terminator included
Intact == Len(stream_data) = offset + Len(EncodeTable(tbl))

DistinctCodes == \A i, j \in 1..Len(tbl) : tbl[i].code = tbl[j].code => i = j

WellFormed == Intact /\ DistinctCodes

\* The declaration entry e decodes to
DeclOf(e) ==
    AbbrevDecl(e.code, [tag |-> e.tag, children_flag |-> e.children_flag,
                        attr_spec |-> e.attr_spec])

SpecPairs(e) == [k \in 1..Len(e.attr_spec) |-> <<e.attr_spec[k].name, e.attr_spec[k].form>>]

\* The entries the decode cursor has passed
Decoded == { i \in 1..Len(tbl) : EntryEnd(i) <= gen_offset }

\* The last entry with code c among the entries D
LastOf(D, c) ==
    tbl[CHOOSE i \in D : tbl[i].code = c /\ \A j \in D : tbl[j].code = c => j <= i]

\* The parser has decoded the terminator: it has ended, and code 0 stands at its cursor
Exhausted ==
    /\ gen_state = "finished"
    /\ parse_uleb128(stream_data, gen_offset).kind = "ok"
    /\ parse_uleb128(stream_data, gen_offset).val = 0

\* The parser has ended on an entry it could not decode
Damaged == gen_state = "finished" /\ ~Exhausted

\* C1: on a well-formed table, whatever lookups came before, get_abbrev(c)
\* returns the declaration of the entry whose code is c, with that entry's tag,
\* children flag (has_children() iff the flag is DW_CHILDREN_yes) and attribute
\* specs in stream order, and raises KeyError when no entry has code c.
C1_LookupByCode ==
    (WellFormed /\ op # "init") =>
        IF \E i \in 1..Len(tbl) : tbl[i].code = req
        THEN LET e == tbl[CHOOSE i \in 1..Len(tbl) : tbl[i].code = req] IN
             /\ ret.kind = "decl"
             /\ ret.decl.code = req
             /\ ret.decl.decl.tag = e.tag
             /\ ret.decl.decl.children_flag = e.children_flag
             /\ has_children(ret.decl) <=> (e.children_flag = DW_CHILDREN_yes)
             /\ iter_attr_specs(ret.decl) = SpecPairs(e)
        ELSE ret.kind = "KeyError"

\* a well-formed table of three entries whose last entry, with two attribute
\* specs and a children flag that is neither yes nor no, has just been returned
C1_Witness ==
    /\ WellFormed /\ Len(tbl) = 3 /\ op = "get_abbrev"
    /\ req = tbl[3].code /\ Len(tbl[3].attr_spec) = 2
    /\ ret.kind = "decl" /\ ~has_children(ret.decl)
    /\ accesses.tells = 3

\* C2: a code that get_abbrev has returned is in the cache and stays there, and
\* a get_abbrev for a code in the cache makes no read, seek or tell, leaves the
\* stream position, the decode cursor, the parser and the cache as they were,
\* and returns the cached declaration.
C2_Memoized ==
    /\ [](ret.kind = "decl" => req \in DOMAIN abbrev_map /\ abbrev_map[req] = ret.decl)
    /\ [][DOMAIN abbrev_map \subseteq DOMAIN abbrev_map']_vars
    /\ [][(op' = "get_abbrev" /\ req' \in DOMAIN abbrev_map) =>
             /\ accesses' = NoAccess
             /\ stream_tell' = stream_tell
             /\ gen_offset' = gen_offset
             /\ gen_state' = gen_state
             /\ abbrev_map' = abbrev_map
             /\ ret'.kind = "decl"
             /\ ret'.decl = abbrev_map[req']]_vars

\* a lookup answered from the cache while the stream stood elsewhere
C2_Witness ==
    /\ op = "get_abbrev" /\ ret.kind = "decl" /\ accesses = NoAccess
    /\ stream_tell # gen_offset /\ gen_state = "suspended"

\* C3: every entry the decode cursor has passed is in the cache under its code
\* (the last such entry, when a code occurs twice), and a later get_abbrev for
\* the code of any passed entry returns it without any stream access.
C3_Resumable ==
    /\ [](LET D == Decoded IN
          \A i \in D :
            /\ tbl[i].code \in DOMAIN abbrev_map
            /\ abbrev_map[tbl[i].code] = DeclOf(LastOf(D, tbl[i].code)))
    /\ [][op' = "get_abbrev" =>
            LET D == Decoded IN
            (\E i \in D : tbl[i].code = req') =>
                /\ accesses' = NoAccess
                /\ ret'.kind = "decl"
                /\ ret'.decl = DeclOf(LastOf(D, req'))]_vars

\* the third entry of a table of distinct codes was asked for first: one call
\* decoded three entries and left the first two in the cache
C3_Witness ==
    /\ WellFormed /\ Len(tbl) = 3 /\ op = "get_abbrev"
    /\ req = tbl[3].code /\ ret.kind = "decl" /\ accesses.tells = 3
    /\ tbl[1].code \in DOMAIN abbrev_map /\ tbl[2].code \in DOMAIN abbrev_map

\* C4: once the terminator has been decoded the table stays exhausted and the
\* cache stays as it is; a later get_abbrev for a code not in the cache raises
\* KeyError without any read, seek or tell, and one for a cached code returns
\* the cached declaration.
C4_ExhaustedForever ==
    [][Exhausted =>
         /\ Exhausted'
         /\ abbrev_map' = abbrev_map
         /\ op' = "get_abbrev" =>
              IF req' \in DOMAIN abbrev_map
              THEN ret'.kind = "decl" /\ ret'.decl = abbrev_map[req']
              ELSE /\ ret'.kind = "KeyError"
                   /\ accesses' = NoAccess
                   /\ stream_tell' = stream_tell]_vars

\* a lookup on an exhausted table that failed without touching the stream
C4_Witness ==
    /\ Exhausted /\ op = "get_abbrev" /\ ret.kind = "KeyError"
    /\ accesses = NoAccess /\ abbrev_map # EmptyMap

\* C8: get_abbrev raises KeyError only when the terminator has been decoded; on
\* a table whose parser ended on an undecodable entry, a lookup of a code that
\* is not in the cache raises ELFParseError.
C8_NotFoundOnlyAtTerminator ==
    /\ ret.kind = "KeyError" => Exhausted
    /\ (op = "get_abbrev" /\ Damaged /\ req \notin DOMAIN abbrev_map)
           => ret.kind = "ELFParseError"

-----------------------------------------------------------------------------
(* utils.preserve_stream_pos: a with-block around a body that seeks and     *)
(* reads, left normally or by an exception raised in the body.              *)

\* __enter__: the generator runs to its yield: saved_pos = stream.tell()
preserve_stream_pos_enter ==
    /\ g_pc = "before"
    /\ g_saved' = g_pos
    /\ g_entry' = g_pos
    /\ g_pc' = "inside"
    /\ UNCHANGED g_pos

\* the body: stream.seek(p)
body_seek(p) ==
    /\ g_pc = "inside"
    /\ g_pos # p
    /\ g_pos' = p
    /\ UNCHANGED <<g_pc, g_saved, g_entry>>

\* the body: stream.read(n)
body_read(n) ==
    /\ g_pc = "inside"
    /\ g_pos < MaxGuardPos
    /\ g_pos' = Min(g_pos + n, MaxGuardPos)
    /\ UNCHANGED <<g_pc, g_saved, g_entry>>

\* __exit__ without an exception: the generator resumes after the yield:
\* stream.seek(saved_pos)
preserve_stream_pos_exit ==
    /\ g_pc = "inside"
    /\ g_pos' = g_saved
    /\ g_pc' = "left"
    /\ UNCHANGED <<g_saved, g_entry>>

\* __exit__ with the body's exception: it is thrown into the generator at the
\* yield, which no try/finally encloses, so it leaves the generator there and
\* the statement after the yield does not run.
preserve_stream_pos_throw ==
    /\ g_pc = "inside"
    /\ g_pc' = "raised"
    /\ UNCHANGED <<g_pos, g_saved, g_entry>>

InitGuard ==
    /\ g_pc = "before" /\ g_pos \in 0..MaxGuardPos /\ g_saved = None /\ g_entry = 0
    /\ IdleTable /\ IdleParse /\ IdleCString /\ IdleLazy /\ IdleRoundup /\ IdleExtra

GuardEnter == preserve_stream_pos_enter
BodySeek == \E p \in 0..MaxGuardPos : body_seek(p)
BodyRead == \E n \in 1..2 : body_read(n)
GuardExit == preserve_stream_pos_exit
GuardThrow == preserve_stream_pos_throw

NextGuard ==
    \/ GuardEnter /\ UNCHANGED <<tvars, svars, cvars, lvars, rvars, evars>>
    \/ BodySeek /\ UNCHANGED <<tvars, svars, cvars, lvars, rvars, evars>>
    \/ BodyRead /\ UNCHANGED <<tvars, svars, cvars, lvars, rvars, evars>>
    \/ GuardExit /\ UNCHANGED <<tvars, svars, cvars, lvars, rvars, evars>>
    \/ GuardThrow /\ UNCHANGED <<tvars, svars, cvars, lvars, rvars, evars>>

SpecGuard == InitGuard /\ [][NextGuard]_vars

\* C5: after the guarded block has been left, normally or by an exception of
\* the body, the stream stands where it stood when the block was entered.
C5_PositionRestored == g_pc \in {"left", "raised"} => g_pos = g_entry

-----------------------------------------------------------------------------
(* utils.struct_parse called once on a stream *)

ParseStreams ==
    {<<>>} \cup { StreamOf(<<e>>, 0, cut) : e \in EntryPool, cut \in 0..MaxCut }

struct_parse_call ==
    /\ ~sp_done
    /\ sp_ret' = struct_parse(sp_struct, sp_data, sp_pos, sp_arg)
    /\ sp_pos' = sp_ret'.pos
    /\ sp_done' = TRUE
    /\ UNCHANGED <<sp_struct, sp_data, sp_pos0, sp_arg>>

InitParse ==
    /\ sp_struct \in {"Dwarf_uleb128", "Dwarf_abbrev_declaration"}
    /\ sp_data \in ParseStreams
    /\ sp_pos \in 0..Len(sp_data)
    /\ sp_pos0 = sp_pos
    /\ sp_arg \in {None} \cup 0..Len(sp_data)
    /\ sp_ret = [kind |-> "none", msg |-> ""]
    /\ sp_done = FALSE
    /\ IdleTable /\ IdleGuard /\ IdleCString /\ IdleLazy /\ IdleRoundup /\ IdleExtra

NextParse == struct_parse_call /\ UNCHANGED <<tvars, gvars, cvars, lvars, rvars, evars>>

SpecParse == InitParse /\ [][NextParse]_vars

\* C7: when the engine raises a ConstructError, struct_parse raises an
\* ELFParseError with the same message; when the engine returns a value,
\* struct_parse returns that value; no ConstructError leaves struct_parse.
C7_ErrorTranslated ==
    sp_done =>
        LET e == parse_stream(sp_struct, sp_data,
                              IF sp_arg # None THEN sp_arg ELSE sp_pos0) IN
        /\ sp_ret.kind # "ConstructError"
        /\ e.kind = "ConstructError" =>
               sp_ret.kind = "ELFParseError" /\ sp_ret.msg = e.msg
        /\ e.kind = "ok" => sp_ret.kind = "ok" /\ sp_ret.val = e.val

\* a declaration whose children byte lies beyond the end of the stream
C7_Witness ==
    /\ sp_done /\ sp_struct = "Dwarf_abbrev_declaration"
    /\ sp_ret.kind = "ELFParseError" /\ sp_ret.msg = "expected 1, found 0"

\* The bytes the layout `struct` consumes for value v
Consumed(struct, v) ==
    IF struct = "Dwarf_uleb128" THEN encode_uleb128(v)
    ELSE encode_uleb128(v.tag) \o <<v.children_flag>> \o EncodeSpecs(v.attr_spec)

\* C16: a struct_parse that succeeds has decoded the bytes that start at
\* stream_pos when it is given (after one seek) and at the stream's current
\* position when it is not (without a seek), and leaves the stream just past
\* the bytes the layout consumed, not at the position it had before the call.
C16_PositionAfterParse ==
    (sp_done /\ sp_ret.kind = "ok") =>
        LET start == IF sp_arg # None THEN sp_arg ELSE sp_pos0
            bytes == Consumed(sp_struct, sp_ret.val)
        IN  /\ sp_ret.seeks = (IF sp_arg # None THEN 1 ELSE 0)
            /\ sp_pos = start + Len(bytes)
            /\ SubSeq(sp_data, start + 1, sp_pos) = bytes
            /\ sp_arg = None => sp_pos > sp_pos0

\* a declaration with an attribute spec decoded at a stream_pos before the
\* stream's position: the stream ends up between the two, restored to neither
C16_Witness ==
    /\ sp_done /\ sp_ret.kind = "ok" /\ sp_struct = "Dwarf_abbrev_declaration"
    /\ sp_arg # None /\ sp_arg < sp_pos /\ sp_pos < sp_pos0
    /\ Len(sp_ret.val.attr_spec) = 1

-----------------------------------------------------------------------------
(* utils.parse_cstring_from_stream *)

CHUNKSIZE == 64

\* stream.read(n) at position pos: the bytes there, fewer than n only at the end
read(data, pos, n) == SubSeq(data, pos + 1, Min(pos + n, Len(data)))

\* chunk.find(b'\x00'): the index of the first zero byte, or -1
find(chunk) ==
    IF \E i \in 1..Len(chunk) : chunk[i] = 0
    THEN (CHOOSE i \in 1..Len(chunk) :
              chunk[i] = 0 /\ \A j \in 1..(i - 1) : chunk[j] # 0) - 1
    ELSE -1

\* A result of the function: the bytes, or None
CString(bytes) == [none |-> FALSE, bytes |-> bytes]
CStringNone == [none |-> TRUE, bytes |-> <<>>]

RECURSIVE cstring_loop(_, _, _)

\* A loop body that stops after any chunk without a terminator
cstring_chunk_stop_early(data, pos, chunks, chunk) ==
    IF find(chunk) >= 0
    THEN CString(chunks \o SubSeq(chunk, 1, find(chunk)))
    ELSE IF Len(chunk) <= CHUNKSIZE THEN CStringNone
    ELSE cstring_loop(data, pos + Len(chunk), chunks \o chunk)

\* the body of the while loop, and the return after it
cstring_chunk(data, pos, chunks, chunk) ==
    IF find(chunk) >= 0
    THEN CString(chunks \o SubSeq(chunk, 1, find(chunk)))
    ELSE IF Len(chunk) < CHUNKSIZE THEN CStringNone
    ELSE cstring_loop(data, pos + Len(chunk), chunks \o chunk)

\* while True: chunk = stream.read(CHUNKSIZE) ...
cstring_loop(data, pos, chunks) ==
    cstring_chunk(data, pos, chunks, read(data, pos, CHUNKSIZE))

parse_cstring_from_stream(data, pos, stream_pos) ==
    cstring_loop(data, IF stream_pos # None THEN stream_pos ELSE pos, <<>>)

parse_cstring_call ==
    /\ ~cs_done
    /\ cs_ret' = parse_cstring_from_stream(cs_data, cs_pos, cs_arg)
    /\ cs_done' = TRUE
    /\ UNCHANGED <<cs_data, cs_pos, cs_arg>>

\* Lengths and offsets at and next to the chunk boundaries
NearChunks == { n \in 0..(MaxChunks * CHUNKSIZE + 1) :
                  n % CHUNKSIZE \in {0, 1, CHUNKSIZE - 1} }

\* The stream of length n whose zero bytes are at the offsets Z
CStringStream(n, Z) == [i \in 1..n |-> IF (i - 1) \in Z THEN 0 ELSE 1 + (i % 200)]

InitCString ==
    /\ \E n \in NearChunks, z1 \in NearChunks, z2 \in NearChunks \cup {None} :
          cs_data = CStringStream(n, {z1, z2})
    /\ cs_pos \in {0, 1}
    /\ cs_arg \in {None, 0, 1, CHUNKSIZE - 1, CHUNKSIZE, CHUNKSIZE + 1}
    /\ cs_ret = CStringNone
    /\ cs_done = FALSE
    /\ IdleTable /\ IdleGuard /\ IdleParse /\ IdleLazy /\ IdleRoundup /\ IdleExtra

NextCString == parse_cstring_call /\ UNCHANGED <<tvars, gvars, svars, lvars, rvars, evars>>

SpecCString == InitCString /\ [][NextCString]_vars

\* The offsets of the zero bytes at or after the start position
ZerosFrom(start) == { i \in (start + 1)..Len(cs_data) : cs_data[i] = 0 }

\* C6: the result is None iff no zero byte lies at or after the start position,
\* and otherwise the bytes from the start position up to the first zero byte
\* at or after it, that byte excluded.
C6_CString ==
    cs_done =>
        LET start == IF cs_arg # None THEN cs_arg ELSE cs_pos
            zs == ZerosFrom(start)
        IN  IF zs = {} THEN cs_ret.none
            ELSE /\ ~cs_ret.none
                 /\ cs_ret.bytes =
                      SubSeq(cs_data, start + 1,
                             (CHOOSE i \in zs : \A j \in zs : i <= j) - 1)

\* the terminator is the first byte of the second chunk
C6_Witness ==
    /\ cs_done /\ ~cs_ret.none /\ Len(cs_ret.bytes) = CHUNKSIZE
    /\ cs_arg = 1

-----------------------------------------------------------------------------
(* utils.roundup *)

\* Python's a | b on integers of unbounded width, two's complement
RECURSIVE BitOr(_, _)
BitOr(a, b) ==
    IF a = 0 THEN b
    ELSE IF b = 0 THEN a
    ELSE IF a = -1 \/ b = -1 THEN -1
    ELSE 2 * BitOr(a \div 2, b \div 2) + (IF a % 2 = 1 \/ b % 2 = 1 THEN 1 ELSE 0)

\* 1 << n
ShiftLeft1(n) == 2 ^ n

\* (num | (1 << bits) - 1) + 1, the decrement of num forgotten
roundup_no_decrement(num, bits) == BitOr(num, ShiftLeft1(bits) - 1) + 1

roundup(num, bits) == BitOr(num - 1, ShiftLeft1(bits) - 1) + 1

roundup_call ==
    /\ ~ru_done
    /\ ru_ret' = roundup(ru_num, ru_bits)
    /\ ru_done' = TRUE
    /\ UNCHANGED <<ru_num, ru_bits>>

InitRoundup ==
    /\ ru_num \in 0..MaxNum /\ ru_bits \in 0..MaxBits /\ ru_ret = 0 /\ ru_done = FALSE
    /\ IdleTable /\ IdleGuard /\ IdleParse /\ IdleCString /\ IdleLazy /\ IdleExtra

NextRoundup == roundup_call /\ UNCHANGED <<tvars, gvars, svars, cvars, lvars, evars>>

SpecRoundup == InitRoundup /\ [][NextRoundup]_vars

\* C10: roundup(num, bits) is the smallest multiple of 2^bits that is >= num;
\* roundup(0,3) = 0, roundup(1,3) = 8, roundup(8,3) = 8, roundup(9,3) = 16.
C10_Roundup ==
    ru_done =>
        /\ ru_ret % (2 ^ ru_bits) = 0
        /\ ru_ret >= ru_num
        /\ ru_ret - (2 ^ ru_bits) < ru_num
        /\ ru_bits = 3 =>
              /\ ru_num = 0 => ru_ret = 0
              /\ ru_num = 1 => ru_ret = 8
              /\ ru_num = 8 => ru_ret = 8
              /\ ru_num = 9 => ru_ret = 16

\* a multiple of 8 is left as it is
C10_Witness == ru_done /\ ru_num = 8 /\ ru_bits = 3 /\ ru_ret = 8

-----------------------------------------------------------------------------
(* utils.lazy: a class whose method `getter` is decorated with lazy, its    *)
(* instances, and reads of the attribute on them.  lazy defines __get__     *)
(* only, so an entry of the instance's __dict__ under the getter's name     *)
(* shadows it.                                                              *)

Objs == 1..NumObjs

Missing == None     \* no entry under the getter's name in obj.__dict__

\* The wrapped getter: a value computed from the instance and its field
getter(obj) == 10 * obj + lz_field[obj]

\* lazy.__get__ that returns the value and does not store it
lazy_get_unstored(obj) ==
    /\ lz_calls' = [lz_calls EXCEPT ![obj] = @ + 1]
    /\ lz_last' = [obj |-> obj, val |-> getter(obj), ran |-> TRUE]
    /\ UNCHANGED <<lz_dict, lz_field>>

\* lazy.__get__ that stores the value on the descriptor, shared by all instances
lazy_get_shared(obj) ==
    /\ lz_calls' = [lz_calls EXCEPT ![obj] = @ + 1]
    /\ lz_dict' = [o \in Objs |-> getter(obj)]
    /\ lz_last' = [obj |-> obj, val |-> getter(obj), ran |-> TRUE]
    /\ UNCHANGED lz_field

\* lazy.__get__(self, obj, _): val = getter(obj); obj.__dict__[name] = val; return val
lazy_get(obj) ==
    /\ lz_calls' = [lz_calls EXCEPT ![obj] = @ + 1]
    /\ lz_dict' = [lz_dict EXCEPT ![obj] = getter(obj)]
    /\ lz_last' = [obj |-> obj, val |-> getter(obj), ran |-> TRUE]
    /\ UNCHANGED lz_field

\* obj.<name>: the instance's __dict__ first, then the non-data descriptor
attribute_access(obj) ==
    /\ lz_calls[obj] < MaxCalls
    /\ IF lz_dict[obj] # Missing
       THEN /\ lz_last' = [obj |-> obj, val |-> lz_dict[obj], ran |-> FALSE]
            /\ UNCHANGED <<lz_dict, lz_calls, lz_field>>
       ELSE lazy_get(obj)

\* the instance changes: the getter would now compute another value
set_field(obj, v) ==
    /\ lz_field[obj] # v
    /\ lz_field' = [lz_field EXCEPT ![obj] = v]
    /\ UNCHANGED <<lz_dict, lz_calls, lz_last>>

InitLazy ==
    /\ lz_field \in [Objs -> 0..MaxField]
    /\ lz_dict = [o \in Objs |-> Missing]
    /\ lz_calls = [o \in Objs |-> 0]
    /\ lz_last = [obj |-> 0, val |-> None, ran |-> FALSE]
    /\ IdleTable /\ IdleGuard /\ IdleParse /\ IdleCString /\ IdleRoundup /\ IdleExtra

AttributeAccess == \E obj \in Objs : attribute_access(obj)
SetField == \E obj \in Objs, v \in 0..MaxField : set_field(obj, v)

NextLazy ==
    \/ AttributeAccess /\ UNCHANGED <<tvars, gvars, svars, cvars, rvars, evars>>
    \/ SetField /\ UNCHANGED <<tvars, gvars, svars, cvars, rvars, evars>>

SpecLazy == InitLazy /\ [][NextLazy]_vars

\* C9: the getter runs at most once per instance, exactly when the value is
\* stored on that instance; a stored value is never replaced and a later access
\* returns it without running the getter; an access returns the value stored on
\* its own instance, which the getter computed from that instance.
C9_LazyOnce ==
    /\ [](\A o \in Objs :
            /\ lz_calls[o] <= 1
            /\ lz_calls[o] = 1 <=> lz_dict[o] # Missing)
    /\ [](lz_last.obj # 0 =>
            /\ lz_last.val = lz_dict[lz_last.obj]
            /\ lz_last.val \div 10 = lz_last.obj)
    /\ [][\A o \in Objs : lz_dict[o] # Missing =>
            /\ lz_dict'[o] = lz_dict[o]
            /\ lz_calls'[o] = lz_calls[o]
            /\ (lz_last' # lz_last /\ lz_last'.obj = o) =>
                   (lz_last'.val = lz_dict[o] /\ ~lz_last'.ran)]_vars

\* an instance whose field changed after its first access is read again and
\* still gives the value computed at the first access
C9_Witness ==
    /\ lz_last.obj = 1 /\ ~lz_last.ran /\ lz_calls[1] = 1
    /\ lz_last.val # getter(1)
    /\ lz_dict[2] # Missing /\ lz_dict[2] # lz_dict[1]

-----------------------------------------------------------------------------
(* Further properties of AbbrevTable, under Spec *)

\* C11: on a table of pairwise distinct codes the cache holds exactly the
\* declarations of the first k entries of the table, for the k whose end offset
\* is the decode cursor (the start offset when k = 0); the cursor, and so k,
\* never moves back, and no cached entry is ever removed or replaced.
C11_CachePrefix ==
    /\ [](DistinctCodes =>
            \E k \in 0..Len(tbl) :
                /\ gen_offset = EntryEnd(k)
                /\ DOMAIN abbrev_map = { tbl[i].code : i \in 1..k }
                /\ \A i \in 1..k : abbrev_map[tbl[i].code] = DeclOf(tbl[i]))
    /\ [][DistinctCodes =>
            /\ gen_offset' >= gen_offset
            /\ \A c \in DOMAIN abbrev_map :
                    c \in DOMAIN abbrev_map' /\ abbrev_map'[c] = abbrev_map[c]]_vars

\* two lookups on a table of three distinct codes have moved the cursor to the
\* end of the second entry, the second one resuming past a cached first entry
C11_Witness ==
    /\ DistinctCodes /\ Len(tbl) = 3 /\ op = "get_abbrev"
    /\ req = tbl[2].code /\ ret.kind = "decl" /\ accesses.tells = 1
    /\ gen_offset = EntryEnd(2) /\ gen_state = "suspended"
    /\ DOMAIN abbrev_map = {tbl[1].code, tbl[2].code}

\* C15: code 0 is never a key of the cache; on a well-formed table
\* get_abbrev(0) raises KeyError, and after it the parser has decoded the
\* terminator and every entry of the table is in the cache.
C15_ZeroNeverCached ==
    /\ 0 \notin DOMAIN abbrev_map
    /\ (WellFormed /\ op = "get_abbrev" /\ req = 0) =>
          /\ ret.kind = "KeyError"
          /\ Exhausted
          /\ gen_offset = EntryEnd(Len(tbl))
          /\ DOMAIN abbrev_map = { tbl[i].code : i \in 1..Len(tbl) }
          /\ \A i \in 1..Len(tbl) : abbrev_map[tbl[i].code] = DeclOf(tbl[i])

\* get_abbrev(0) was the first lookup on a well-formed table of three entries:
\* it decoded all three and the terminator
C15_Witness ==
    /\ WellFormed /\ Len(tbl) = 3 /\ op = "get_abbrev" /\ req = 0
    /\ ret.kind = "KeyError" /\ accesses.tells = 3 /\ accesses.seeks = 4
    /\ Cardinality(DOMAIN abbrev_map) = 3

-----------------------------------------------------------------------------
(* Specification of the life of one AbbrevTable: a stream holds a table at   *)
(* `offset`, left at its end by whoever read it last; the AbbrevTable is     *)
(* constructed on it, and then get_abbrev is called with any codes in any    *)
(* order.  The history of the calls is kept: what each code first returned,  *)
(* and every offset the parser seeked to.                                    *)

\* An eager constructor: it decodes the whole table into the cache.
AbbrevTable_init_eager ==
    /\ gen_state = "none"
    /\ op' = "init" /\ req' = None
    /\ get_abbrev_scanned(for_decl_in_parser(stream_data,
           Generator("created", offset, stream_tell, NoAccess), EmptyMap, None))
    /\ UNCHANGED <<stream_data, tbl, offset>>

\* AbbrevTable.__init__: the fields are assigned and the generator object is
\* made; its body does not run before the first next().
AbbrevTable_init ==
    /\ gen_state = "none"
    /\ gen_state' = "created"
    /\ gen_offset' = offset
    /\ abbrev_map' = EmptyMap
    /\ op' = "init" /\ req' = None /\ ret' = NoRet /\ accesses' = NoAccess
    /\ UNCHANGED <<stream_data, stream_tell, tbl, offset>>

\* The history after a call
Remember ==
    /\ returned' = IF ret'.kind = "decl" /\ req' \notin DOMAIN returned
                   THEN MapPut(returned, req', ret'.decl) ELSE returned
    /\ decode_log' = decode_log \o accesses'.sought

InitLife ==
    /\ \E t \in Tables, o \in Offsets, cut \in 0..MaxCut :
          /\ tbl = t /\ offset = o /\ stream_data = StreamOf(t, o, cut)
    /\ stream_tell = Len(stream_data)
    /\ abbrev_map = EmptyMap /\ gen_state = "none" /\ gen_offset = 0
    /\ op = "none" /\ req = None /\ ret = NoRet /\ accesses = NoAccess
    /\ IdleHistory /\ IdleShared /\ IdleIter
    /\ IdleGuard /\ IdleParse /\ IdleCString /\ IdleLazy /\ IdleRoundup

Construct == AbbrevTable_init /\ Remember

Lookup == gen_state # "none" /\ (\E code \in ReqCodes : get_abbrev(code)) /\ Remember

NextLife ==
    \/ Construct /\ UNCHANGED <<gvars, svars, cvars, lvars, rvars, xvars, ivars>>
    \/ Lookup /\ UNCHANGED <<gvars, svars, cvars, lvars, rvars, xvars, ivars>>

SpecLife == InitLife /\ [][NextLife]_vars

\* C12: once get_abbrev(c) has returned a declaration, every later
\* get_abbrev(c) on the table returns that same declaration, on any table,
\* also one in which code c occurs in more than one entry, and no value in the
\* cache is ever changed by a later call.
C12_StableResults ==
    /\ []((op = "get_abbrev" /\ req \in DOMAIN returned) =>
              ret.kind = "decl" /\ ret.decl = returned[req])
    /\ [][\A c \in DOMAIN abbrev_map :
              c \in DOMAIN abbrev_map' /\ abbrev_map'[c] = abbrev_map[c]]_vars

\* The seeks of one call, when it began with k0 entries behind the cursor:
\* one per entry, at the end of the entry before
OneAtATime(k0, sought) ==
    \A j \in 1..Len(sought) :
        /\ k0 + j - 1 <= Len(tbl)
        /\ sought[j] = EntryEnd(k0 + j - 1)

Remaining ==
    { i \in 1..Len(tbl) : EntryEnd(i) > gen_offset /\ EntryEnd(i) <= Len(stream_data) }

\* C17: every get_abbrev call ends, with a declaration, with KeyError or with
\* an ELFParseError, having decoded no more than the entries between the
\* decode cursor and the terminator or the end of the stream; within a call
\* and over the life of the table the parser's seeks go strictly forward, so
\* that no offset is decoded a second time.
C17_TerminatesForward ==
    /\ [](op = "get_abbrev" => ret.kind \in {"decl", "KeyError", "ELFParseError"})
    /\ [][op' = "get_abbrev" =>
            LET left == Cardinality(Remaining) IN
            /\ accesses'.tells <= left
            /\ accesses'.seeks <= left + 1
            /\ Len(accesses'.sought) = accesses'.seeks
            /\ \A j \in 1..Len(accesses'.sought) :
                   /\ accesses'.sought[j] >= gen_offset
                   /\ accesses'.sought[j] <= Len(stream_data)
            /\ gen_offset' >= gen_offset
            /\ gen_offset' <= Len(stream_data)]_vars
    /\ [](\A i, j \in 1..Len(decode_log) : i < j => decode_log[i] < decode_log[j])

\* on a stream cut inside the third entry, a lookup that resumed behind the
\* first entry decoded the second and ended in an ELFParseError
C17_Witness ==
    /\ Len(tbl) = 3 /\ ~Intact /\ op = "get_abbrev" /\ ret.kind = "ELFParseError"
    /\ accesses.tells = 1 /\ accesses.seeks = 2
    /\ decode_log = <<EntryEnd(0), EntryEnd(1), EntryEnd(2)>>
    /\ EntryEnd(3) > Len(stream_data)

-----------------------------------------------------------------------------
(* Specification of two AbbrevTables bound to one stream, at the same or at  *)
(* different offsets.  Their get_abbrev calls interleave in any order, each  *)
(* call atomic, and other code seeks the stream in between.  Next to each    *)
(* table runs its copy on a stream of the same bytes that nobody else uses:  *)
(* the copy receives the same calls.                                         *)

MaxSharedEntries == 2

Tabs == {1, 2}

SharedPool == { e \in EntryPool : e.tag \in {17, 200} }
SharedTables == UNION { [1..n -> SharedPool] : n \in 0..MaxSharedEntries }
SharedCodes == {3, 300}

\* The fields of an AbbrevTable after __init__(structs, stream, off), and the
\* position of the stream it reads
TableAt(off, tell) ==
    [offset |-> off, map |-> EmptyMap, state |-> "created", cursor |-> off, tell |-> tell]

\* get_abbrev(code) on table t over stream `data`
get_abbrev_on(data, t, code) ==
    IF code \in DOMAIN t.map
    THEN Scanned(Generator(t.state, t.cursor, t.tell, NoAccess), t.map,
                 "decl", t.map[code], "")
    ELSE for_decl_in_parser(data, Generator(t.state, t.cursor, t.tell, NoAccess),
                            t.map, code)

\* Table t after the call that gave s
TableAfter(t, s) ==
    [t EXCEPT !.map = s.map, !.state = s.g.state, !.cursor = s.g.offset, !.tell = s.g.pos]

\* One call of table i on the shared stream, and the same call of its solo copy
shared_get_abbrev(i, code, s, alone) ==
    /\ sh_tab' = [sh_tab EXCEPT ![i] = TableAfter(@, s)]
    /\ sh_tell' = s.g.pos
    /\ sh_solo' = [sh_solo EXCEPT ![i] = TableAfter(@, alone)]
    /\ sh_call' = [tab |-> i, code |-> code, from |-> sh_tell,
                    ret |-> s.ret, solo |-> alone.ret]
    /\ UNCHANGED sh_data

\* Other code of the program moves the shared stream
shared_seek(p) ==
    /\ sh_tell # p
    /\ sh_tell' = p
    /\ UNCHANGED <<sh_data, sh_tab, sh_solo, sh_call>>

InitShared ==
    /\ \E t1, t2 \in SharedTables, same \in BOOLEAN :
          /\ sh_data = EncodeTable(t1) \o EncodeTable(t2)
          /\ sh_tab = <<TableAt(0, 0),
                        TableAt(IF same THEN 0 ELSE Len(EncodeTable(t1)), 0)>>
    /\ sh_solo = sh_tab
    /\ sh_tell = 0
    /\ sh_call = [tab |-> 0, code |-> None, from |-> 0, ret |-> NoRet, solo |-> NoRet]
    /\ IdleTable /\ IdleHistory /\ IdleIter
    /\ IdleGuard /\ IdleParse /\ IdleCString /\ IdleLazy /\ IdleRoundup

SharedGetAbbrev ==
    \E i \in Tabs, code \in SharedCodes :
        shared_get_abbrev(i, code,
            get_abbrev_on(sh_data, [sh_tab[i] EXCEPT !.tell = sh_tell], code),
            get_abbrev_on(sh_data, sh_solo[i], code))

SharedSeek == \E p \in {0, Len(sh_data)} : shared_seek(p)

NextShared ==
    \/ SharedGetAbbrev /\ UNCHANGED <<tvars, gvars, svars, cvars, lvars, rvars, hvars, ivars>>
    \/ SharedSeek /\ UNCHANGED <<tvars, gvars, svars, cvars, lvars, rvars, hvars, ivars>>

SpecShared == InitShared /\ [][NextShared]_vars

\* The fields of a table that do not depend on who else uses the stream
Own(t) == [offset |-> t.offset, map |-> t.map, state |-> t.state, cursor |-> t.cursor]

\* C13: whatever the interleaving of the two tables' calls and of the seeks of
\* other code, every get_abbrev call returns or raises what the same call
\* returns or raises on a stream the table has to itself, and leaves the same
\* cache, parser state and decode cursor.
C13_StreamPositionIndependent ==
    /\ sh_call.ret = sh_call.solo
    /\ \A i \in DOMAIN sh_tab : Own(sh_tab[i]) = Own(sh_solo[i])

\* table 1 has decoded its second entry from its own cursor in a call that
\* found the stream where table 2, living at another offset, had left it
C13_Witness ==
    /\ sh_call.tab = 1 /\ sh_call.ret.kind = "decl"
    /\ sh_tab[1].offset # sh_tab[2].offset
    /\ sh_tab[2].cursor > sh_tab[2].offset
    /\ sh_call.from = sh_tab[2].tell
    /\ sh_call.from > sh_tab[1].cursor
    /\ sh_tab[1].tell = sh_tab[1].cursor
    /\ Cardinality(DOMAIN sh_tab[1].map) = 2

-----------------------------------------------------------------------------
(* Specification of AbbrevDecl.iter_attr_specs: a declaration has been       *)
(* decoded from a stream; iter_attr_specs is called any number of times and  *)
(* the generators it returns are advanced in any order, each as far as the   *)
(* caller likes.                                                             *)

MaxIters == 3

\* A generator object of iter_attr_specs, its body not yet run
NewIter == [pos |-> 0, out |-> <<>>, done |-> FALSE]

\* What one next() gives: the generator after it and the iteration state on
\* the declaration
Advanced(it, cursor) == [it |-> it, cursor |-> cursor]

\* An iteration over one cursor kept on the declaration: every generator
\* goes on where the last one stopped.
iter_next_shared(d, it, cursor) ==
    IF cursor < Len(d.decl.attr_spec)
    THEN Advanced([it EXCEPT !.pos = cursor + 1,
                             !.out = Append(@, iter_attr_specs(d)[cursor + 1])],
                  cursor + 1)
    ELSE Advanced([it EXCEPT !.done = TRUE], cursor)

\* for attr_spec in self['attr_spec']: yield attr_spec.name, attr_spec.form
iter_next(d, it, cursor) ==
    IF it.pos < Len(d.decl.attr_spec)
    THEN Advanced([it EXCEPT !.pos = @ + 1,
                             !.out = Append(@, iter_attr_specs(d)[it.pos + 1])],
                  cursor)
    ELSE Advanced([it EXCEPT !.done = TRUE], cursor)

\* decl.iter_attr_specs()
iter_attr_specs_call ==
    /\ Len(it_iters) < MaxIters
    /\ it_iters' = Append(it_iters, NewIter)
    /\ UNCHANGED <<it_entry, it_decl, it_cursor>>

\* next() on the i-th generator
generator_advance(i, a) ==
    /\ it_iters' = [it_iters EXCEPT ![i] = a.it]
    /\ it_cursor' = a.cursor
    /\ UNCHANGED <<it_entry, it_decl>>

generator_next(i) ==
    /\ ~it_iters[i].done
    /\ generator_advance(i, iter_next(it_decl, it_iters[i], it_cursor))

\* The declaration struct_parse decodes from the bytes of entry e
DecodedFrom(e) ==
    AbbrevDecl(e.code,
        struct_parse("Dwarf_abbrev_declaration", EncodeEntry(e),
                     0, Len(encode_uleb128(e.code))).val)

InitIter ==
    /\ it_entry \in EntryPool
    /\ it_decl = DecodedFrom(it_entry)
    /\ it_iters = <<>>
    /\ it_cursor = 0
    /\ IdleTable /\ IdleHistory /\ IdleShared
    /\ IdleGuard /\ IdleParse /\ IdleCString /\ IdleLazy /\ IdleRoundup

IterAttrSpecs == iter_attr_specs_call
GeneratorNext == \E i \in 1..Len(it_iters) : generator_next(i)

NextIter ==
    \/ IterAttrSpecs /\ UNCHANGED <<tvars, gvars, svars, cvars, lvars, rvars, hvars, xvars>>
    \/ GeneratorNext /\ UNCHANGED <<tvars, gvars, svars, cvars, lvars, rvars, hvars, xvars>>

SpecIter == InitIter /\ [][NextIter]_vars

\* C18: whatever generators of iter_attr_specs exist and however far each has
\* been consumed, each has yielded a prefix of the (name, form) pairs of the
\* entry's attribute specs in stream order, a generator that has ended has
\* yielded all of them, and the declaration is never changed.
C18_Restartable ==
    /\ [](\A i \in 1..Len(it_iters) :
            /\ it_iters[i].out = SubSeq(SpecPairs(it_entry), 1, Len(it_iters[i].out))
            /\ it_iters[i].done => it_iters[i].out = SpecPairs(it_entry))
    /\ [][it_decl' = it_decl]_vars

\* three generators over a declaration of two attribute specs: the first was
\* left after one pair, the second ran to its end, the third, made after
\* that, has yielded the first pair again
C18_Witness ==
    /\ Len(it_iters) = 3 /\ Len(it_decl.decl.attr_spec) = 2
    /\ it_iters[1].out = <<<<11, 11>>>> /\ ~it_iters[1].done
    /\ it_iters[2].done /\ it_iters[2].out = <<<<11, 11>>, <<3, 8>>>>
    /\ it_iters[3].out = <<<<11, 11>>>>

====
